---- MODULE Spec2Model ----
(***************************************************************************)
(* Hazard Observation Call: the express/better-sqlite3/ws server           *)
(* (src/unnamed/part_001) and the React client's hazard list               *)
(* (src/unnamed/part_000), as one state machine.                           *)
(*                                                                         *)
(* A browser b runs the React client: it holds one session cookie / user   *)
(* state, one hazard list and at most one WebSocket connection; the        *)
(* server-side connection of browser b is named b as well.  Other callers  *)
(* send HTTP requests with any token the server has issued, and other      *)
(* peers open WebSocket connections, without a modelled client behind them.*)
(***************************************************************************)
EXTENDS Integers, Sequences, FiniteSets, TLC

(***************************************************************************)
(* Bounds of the model.                                                    *)
(***************************************************************************)
NumBrowsers == 1
NumPeers == 2
MaxUsers == 1
MaxHazards == 2
MaxClientHazards == 1
MaxClock == 1
MaxInbox == 2
MaxFetch == 1

Browsers == 1..NumBrowsers
\* Connections of peers other than the modelled browsers.
Peers == (NumBrowsers + 1)..(NumBrowsers + NumPeers)
Conns == Browsers \cup Peers

(***************************************************************************)
(* Values.                                                                 *)
(***************************************************************************)
\* SQL NULL / JSON null in a column.
NULL == "NULL"
\* JavaScript undefined: what .get() returns when no row matches, and what
\* msg.payload is when the key is missing from the parsed message.
Undefined == [undefined |-> TRUE]
\* No session: req.cookies.token is absent; the client's user state is null.
NoUser == [id |-> 0, username |-> "", role |-> "none"]

\* A token jwt.verify rejects: not signed with the server's secret, whatever
\* claims it carries.
InvalidToken == [id |-> 1, username |-> "admin", role |-> "admin", verifies |-> FALSE]

HazardStatus == {"open", "in progress", "closed"}
\* What a PATCH body can carry as status: any string.
StatusInputs == HazardStatus \cup {"resolved"}
Usernames == {"alice"}
Passwords == {"pw1", "pw2"}
\* What a register body can carry in a role field; AbsentRole: no such field.
AbsentRole == ""
RoleInputs == {AbsentRole, "admin"}
RemarkInputs == {"dispatched"}
ReportInputs ==
    {[type |-> "Spill", location |-> "Dock 3", riskLevel |-> "medium",
      description |-> "Wet floor", imageUrl |-> ""]}

\* The risk levels of the Hazard type.
RiskLevel == {"low", "medium", "high"}
\* Bodies a POST can carry that the report form would not send: an empty
\* description, a risk level outside RiskLevel.
InvalidReportInputs ==
    {[type |-> "Spill", location |-> "Dock 3", riskLevel |-> "medium",
      description |-> "", imageUrl |-> ""],
     [type |-> "Spill", location |-> "Dock 3", riskLevel |-> "extreme",
      description |-> "Wet floor", imageUrl |-> ""]}

VARIABLES
    users,       \* table users, in id order
    hazards,     \* table hazards, in id order
    now,         \* the database clock (CURRENT_TIMESTAMP, whole seconds)
    tokens,      \* the claims of the tokens jwt.sign has issued (they never expire)
    clients,     \* the server's Set<WebSocket>
    readyState,  \* readyState of each server-side connection
    broken,      \* connections whose transport has failed while the server
                 \* still reads readyState OPEN: a send on them is lost
    inbox,       \* per browser: messages sent to it and not yet handled by
                 \* onmessage, each with a history flag: no write to the
                 \* message's record was committed since it was sent
    user,        \* per browser: the session cookie's claims = the client's user state
    view,        \* per browser: the client's hazards state
    mounted,     \* per browser: the React tree is still mounted
    fetching,    \* per browser: GET /api/hazards responses in flight
    resp,        \* the response of the HTTP request handled by the last step
    bcast        \* the broadcast calls made by the last step

vars == <<users, hazards, now, tokens, clients, readyState, broken, inbox, user, view,
          mounted, fetching, resp, bcast>>

serverVars == <<users, hazards, now, tokens, clients, readyState, broken, inbox>>
clientVars == <<user, view, mounted, fetching>>

NoResp == [op |-> "none", status |-> 0]

(***************************************************************************)
(* Database.                                                               *)
(***************************************************************************)
\* bcrypt.hashSync / bcrypt.compareSync: a hash matches exactly its password.
HashSync(password) == <<"bcrypt", password>>
CompareSync(password, hash) == hash = HashSync(password)

\* "Seed Admin if not exists"
SeedAdmin(u) ==
    IF \E i \in 1..Len(u) : u[i].username = "admin"
    THEN u
    ELSE Append(u, [id |-> Len(u) + 1, username |-> "admin",
                    password |-> HashSync("admin123"), role |-> "admin"])

\* SELECT * FROM users WHERE username = ? (.get(): first row or undefined)
SelectUser(u, username) ==
    LET hit == SelectSeq(u, LAMBDA r : r.username = username)
    IN  IF hit = <<>> THEN Undefined ELSE hit[1]

\* Variant of UsernameTaken: the username column is not UNIQUE.
UsernameTakenNever(u, username) == FALSE

\* username TEXT UNIQUE: an INSERT of a username some row already has fails.
UsernameTaken(u, username) == \E i \in 1..Len(u) : u[i].username = username

\* Variant of InsertUser: the role column defaults to 'admin'.
InsertUserAsAdmin(u, username, hashed) ==
    Append(u, [id |-> Len(u) + 1, username |-> username,
               password |-> hashed, role |-> "admin"])

\* INSERT INTO users (username, password) VALUES (?, ?): role takes the
\* column default 'user', id is the next AUTOINCREMENT value.
InsertUser(u, username, hashed) ==
    Append(u, [id |-> Len(u) + 1, username |-> username,
               password |-> hashed, role |-> "user"])

\* Variant of InsertHazard: the owner is read from the request body, which
\* carries none, instead of from the session.
InsertHazardNoOwner(h, userId, in, t) ==
    Append(h, [id |-> Len(h) + 1, userId |-> 0, type |-> in.type,
               location |-> in.location, riskLevel |-> in.riskLevel,
               description |-> in.description, imageUrl |-> in.imageUrl,
               status |-> "open", remarks |-> NULL, createdAt |-> t])

\* Variant of InsertHazard: the status default is spelled 'Open'.
InsertHazardCapital(h, userId, in, t) ==
    Append(h, [id |-> Len(h) + 1, userId |-> userId, type |-> in.type,
               location |-> in.location, riskLevel |-> in.riskLevel,
               description |-> in.description, imageUrl |-> in.imageUrl,
               status |-> "Open", remarks |-> NULL, createdAt |-> t])

\* INSERT INTO hazards (userId, type, location, riskLevel, description, imageUrl):
\* status takes the default 'open', remarks has no default (NULL), createdAt
\* is CURRENT_TIMESTAMP.
InsertHazard(h, userId, in, t) ==
    Append(h, [id |-> Len(h) + 1, userId |-> userId, type |-> in.type,
               location |-> in.location, riskLevel |-> in.riskLevel,
               description |-> in.description, imageUrl |-> in.imageUrl,
               status |-> "open", remarks |-> NULL, createdAt |-> t])

\* SELECT * FROM hazards WHERE id = ? (.get())
SelectHazard(h, id) ==
    LET hit == SelectSeq(h, LAMBDA r : r.id = id)
    IN  IF hit = <<>> THEN Undefined ELSE hit[1]

\* Variant of UpdateHazard: the status only moves forward
\* (open, in progress, closed); a backward request changes nothing.
StatusRank(st) == IF st = "open" THEN 0 ELSE IF st = "in progress" THEN 1 ELSE 2

UpdateHazardForward(h, id, status, remarks) ==
    [i \in 1..Len(h) |->
        IF h[i].id = id /\ StatusRank(status) >= StatusRank(h[i].status)
        THEN [h[i] EXCEPT !.status = status, !.remarks = remarks]
        ELSE h[i]]

\* Variant of UpdateHazard: the UPDATE has no WHERE clause.
UpdateHazardAll(h, id, status, remarks) ==
    [i \in 1..Len(h) |-> [h[i] EXCEPT !.status = status, !.remarks = remarks]]

\* Variant of UpdateHazard: INSERT OR REPLACE, which makes a row for an id
\* that has none.
UpdateHazardUpsert(h, id, status, remarks) ==
    IF \E i \in 1..Len(h) : h[i].id = id
    THEN [i \in 1..Len(h) |->
            IF h[i].id = id
            THEN [h[i] EXCEPT !.status = status, !.remarks = remarks]
            ELSE h[i]]
    ELSE Append(h, [id |-> id, userId |-> 0, type |-> NULL, location |-> NULL,
                    riskLevel |-> NULL, description |-> NULL, imageUrl |-> NULL,
                    status |-> status, remarks |-> remarks, createdAt |-> 0])

\* Variant of UpdateHazard: the remarks are added to the ones the row has,
\* SET remarks = remarks || ?.
UpdateHazardAppend(h, id, status, remarks) ==
    [i \in 1..Len(h) |->
        IF h[i].id = id
        THEN [h[i] EXCEPT !.status = status,
                          !.remarks = IF @ = NULL THEN remarks ELSE @ \o remarks]
        ELSE h[i]]

\* UPDATE hazards SET status = ?, remarks = ? WHERE id = ?
UpdateHazard(h, id, status, remarks) ==
    [i \in 1..Len(h) |->
        IF h[i].id = id
        THEN [h[i] EXCEPT !.status = status, !.remarks = remarks]
        ELSE h[i]]

\* Variant of PatchHazard: the row is read before the UPDATE runs.
PatchHazardStale(h, id, status, remarks) ==
    [db |-> UpdateHazard(h, id, status, remarks), updated |-> SelectHazard(h, id)]

\* Variant of PatchHazard: the new values are put on the row that is sent
\* and returned, and the UPDATE is never run.
PatchHazardUnsaved(h, id, status, remarks) ==
    [db |-> h, updated |-> SelectHazard(UpdateHazard(h, id, status, remarks), id)]

\* The PATCH handler's two statements: the UPDATE, then the SELECT of the
\* same id on the updated table.
PatchHazard(h, id, status, remarks) ==
    LET db == UpdateHazard(h, id, status, remarks)
    IN  [db |-> db, updated |-> SelectHazard(db, id)]

\* The POST handler's two statements: the INSERT, then the SELECT of
\* lastInsertRowid.
PostHazard(h, userId, in, t) ==
    LET db == InsertHazard(h, userId, in, t)
    IN  [db |-> db, newHazard |-> SelectHazard(db, Len(db))]

\* ORDER BY createdAt DESC: every arrangement of the rows with createdAt
\* non-increasing (SQL leaves the order of equal keys open).
OrderByCreatedAtDesc(rows) ==
    {s \in [1..Cardinality(rows) -> rows] :
        /\ \A i, j \in 1..Cardinality(rows) : i # j => s[i] # s[j]
        /\ \A i, j \in 1..Cardinality(rows) :
              i < j => s[i].createdAt >= s[j].createdAt}

\* Variant of JoinReporter: the join is on h.id = u.id.
JoinReporterById(h, u) ==
    {[id |-> h[i].id, userId |-> h[i].userId, type |-> h[i].type,
      location |-> h[i].location, riskLevel |-> h[i].riskLevel,
      description |-> h[i].description, imageUrl |-> h[i].imageUrl,
      status |-> h[i].status, remarks |-> h[i].remarks,
      createdAt |-> h[i].createdAt, reporter |-> u[j].username] :
        <<i, j>> \in {p \in (1..Len(h)) \X (1..Len(u)) : h[p[1]].id = u[p[2]].id}}

\* SELECT h.*, u.username as reporter FROM hazards h JOIN users u ON h.userId = u.id
JoinReporter(h, u) ==
    {[id |-> h[i].id, userId |-> h[i].userId, type |-> h[i].type,
      location |-> h[i].location, riskLevel |-> h[i].riskLevel,
      description |-> h[i].description, imageUrl |-> h[i].imageUrl,
      status |-> h[i].status, remarks |-> h[i].remarks,
      createdAt |-> h[i].createdAt, reporter |-> u[j].username] :
        <<i, j>> \in {p \in (1..Len(h)) \X (1..Len(u)) : h[p[1]].userId = u[p[2]].id}}

\* Variant of SelectOwned: the WHERE clause is missing.
SelectOwnedAll(h, userId) == {h[i] : i \in 1..Len(h)}

\* SELECT * FROM hazards WHERE userId = ?
SelectOwned(h, userId) ==
    {h[i] : i \in {k \in 1..Len(h) : h[k].userId = userId}}

\* The rows GET /api/hazards selects for the session req.user.
ListRows(h, u, reqUser) ==
    IF reqUser.role = "admin" THEN JoinReporter(h, u) ELSE SelectOwned(h, reqUser.id)

(***************************************************************************)
(* Middleware and auth routes.                                             *)
(***************************************************************************)
\* Variant of Authenticated: every request passes.
AuthenticatedAny(reqUser) == TRUE

\* authenticate: a request without a token, or with a token jwt.verify
\* rejects, is answered 401.
Authenticated(reqUser) == reqUser \notin {NoUser, InvalidToken}

\* Variant of IsAdmin: every session passes.
IsAdminAny(reqUser) == TRUE

\* isAdmin: a session whose role is not 'admin' is answered 403.
IsAdmin(reqUser) == reqUser.role = "admin"

\* POST /api/auth/login: the claims signed into the token and returned, or
\* Undefined when the credentials are rejected (401).
LoginClaims(u, username, password) ==
    LET row == SelectUser(u, username)
    IN  IF row # Undefined /\ CompareSync(password, row.password)
        THEN [id |-> row.id, username |-> row.username, role |-> row.role]
        ELSE Undefined

(***************************************************************************)
(* Event broadcaster.                                                      *)
(***************************************************************************)
\* JSON.stringify drops a key whose value is undefined; JSON.parse on the
\* client gives back an object without that key.
Stringify(data) ==
    IF data.payload = Undefined THEN [type |-> data.type] ELSE data

Payload(msg) == IF "payload" \in DOMAIN msg THEN msg.payload ELSE Undefined

\* Variant of Recipients: readyState is not looked at.
RecipientsAll(cl, rs) == cl

\* The connections broadcast sends to: registered and readyState OPEN.
Recipients(cl, rs) == {c \in cl : rs[c] = "OPEN"}

\* Variant of Attempted: a failed send throws out of forEach, so the
\* connections after the first failing one (in iteration order, here the
\* order of the connection numbers) are not visited.
AttemptedUntilFailure(cl, rs, br) ==
    {c \in Recipients(cl, rs) : \A d \in Recipients(cl, rs) \cap br : c <= d}

\* The connections client.send is called on: forEach visits every client
\* and sends on each one that is OPEN, whatever happened to the ones before.
Attempted(cl, rs, br) == Recipients(cl, rs)

\* Variant of SendRaises: a send that cannot be delivered throws.
SendRaisesOnFailure(to, br) == to \cap br # {}

\* client.send(message) is called without a callback: a write that fails is
\* not raised to the caller.
SendRaises(to, br) == FALSE

\* The status the handler answers with after its broadcast call: an
\* exception would reach express' error handler (500).
StatusAfterBroadcast(cl, rs, br) ==
    IF SendRaises(Attempted(cl, rs, br), br) THEN 500 ELSE 200

\* Variant of Broadcast: a message overtakes the ones still in flight on
\* its connection.
BroadcastOvertaking(data, cl, rs, br, ib) ==
    [c \in Browsers |->
        IF c \in Attempted(cl, rs, br) \ br
        THEN <<[msg |-> Stringify(data), current |-> TRUE]>> \o ib[c]
        ELSE ib[c]]

\* broadcast(data): the browsers' inboxes after the message is sent; a send
\* on a failed transport is lost.
Broadcast(data, cl, rs, br, ib) ==
    [c \in Browsers |->
        IF c \in Attempted(cl, rs, br) \ br
        THEN Append(ib[c], [msg |-> Stringify(data), current |-> TRUE])
        ELSE ib[c]]

\* History: a write to record id was committed, so the messages in flight
\* about that record no longer carry its latest state.
Supersede(ib, id) ==
    [c \in Browsers |->
        [k \in 1..Len(ib[c]) |->
            IF Payload(ib[c][k].msg) # Undefined /\ Payload(ib[c][k].msg).id = id
            THEN [ib[c][k] EXCEPT !.current = FALSE]
            ELSE ib[c][k]]]

\* What a step that calls broadcast once records about the call.
BroadcastCall(data, cl, rs, br) ==
    <<[type |-> data.type, payload |-> data.payload, to |-> Attempted(cl, rs, br),
       failed |-> Attempted(cl, rs, br) \cap br]>>


(***************************************************************************)
(* Initial state: a fresh database after the schema and the admin seed, no  *)
(* token issued, no connection, every browser logged out.                  *)
(***************************************************************************)
Init ==
    /\ users = SeedAdmin(<<>>)
    /\ hazards = <<>>
    /\ now = 0
    /\ tokens = {}
    /\ clients = {}
    /\ readyState = [c \in Conns |-> "CLOSED"]
    /\ broken = {}
    /\ inbox = [c \in Browsers |-> <<>>]
    /\ user = [b \in Browsers |-> NoUser]
    /\ view = [b \in Browsers |-> <<>>]
    /\ mounted = [b \in Browsers |-> TRUE]
    /\ fetching = [b \in Browsers |-> {}]
    /\ resp = NoResp
    /\ bcast = <<>>

\* The server process is started again on the same database file: the
\* tables are kept (CREATE TABLE IF NOT EXISTS), the admin is seeded if it
\* is not there, the connection set is new and every socket is gone.
\* Tokens stay valid: the signing secret does not change.
Restart ==
    /\ users' = SeedAdmin(users)
    /\ clients' = {}
    /\ readyState' = [c \in Conns |-> "CLOSED"]
    /\ broken' = {}
    /\ inbox' = [b \in Browsers |-> <<>>]
    /\ resp' = [op |-> "restart", status |-> 0]
    /\ bcast' = <<>>
    /\ UNCHANGED <<hazards, now, tokens, clientVars>>

(***************************************************************************)
(* HTTP handlers.  reqUser is the claims of the request's token, or NoUser. *)
(***************************************************************************)
\* The database clock advances.
Tick ==
    /\ now < MaxClock
    /\ now' = now + 1
    /\ resp' = NoResp
    /\ bcast' = <<>>
    /\ UNCHANGED <<users, hazards, tokens, clients, readyState, broken, inbox,
                   clientVars>>

\* POST /api/auth/register: the INSERT fails on the UNIQUE username and the
\* catch answers 400.  Only username and password are read from the body;
\* role is what the body carries in a field of that name.
Register(username, password, role) ==
    /\ IF ~UsernameTaken(users, username)
       THEN /\ Len(users) < MaxUsers + 1
            /\ users' = InsertUser(users, username, HashSync(password))
            /\ resp' = [op |-> "register", status |-> 200, username |-> username,
                        role |-> role]
       ELSE /\ users' = users
            /\ resp' = [op |-> "register", status |-> 400, username |-> username,
                        role |-> role]
    /\ bcast' = <<>>
    /\ UNCHANGED <<hazards, now, tokens, clients, readyState, broken, inbox,
                   clientVars>>

\* POST /api/auth/login by a caller other than the browsers.
Login(username, password) ==
    /\ LET claims == LoginClaims(users, username, password)
       IN  IF claims # Undefined
           THEN /\ tokens' = tokens \cup {claims}
                /\ resp' = [op |-> "login", status |-> 200, body |-> claims]
           ELSE /\ tokens' = tokens
                /\ resp' = [op |-> "login", status |-> 401]
    /\ bcast' = <<>>
    /\ UNCHANGED <<users, hazards, now, clients, readyState, broken, inbox,
                   clientVars>>

\* POST /api/auth/login from browser b's login form; on success the client
\* stores the returned identity (onLogin = setUser) and holds the cookie.
BrowserLogin(b, username, password) ==
    /\ mounted[b]
    /\ user[b] = NoUser
    /\ LET claims == LoginClaims(users, username, password)
       IN  IF claims # Undefined
           THEN /\ tokens' = tokens \cup {claims}
                /\ user' = [user EXCEPT ![b] = claims]
                /\ resp' = [op |-> "login", status |-> 200, body |-> claims]
           ELSE /\ tokens' = tokens
                /\ user' = user
                /\ resp' = [op |-> "login", status |-> 401]
    /\ bcast' = <<>>
    /\ UNCHANGED <<users, hazards, now, clients, readyState, broken, inbox, view,
                   mounted, fetching>>

\* POST /api/auth/logout from browser b (handleLogout): the cookie is
\* cleared and setUser(null) runs the effect cleanup, which closes the
\* socket; the hazards state is not reset.
Logout(b) ==
    /\ mounted[b]
    /\ user[b] # NoUser
    /\ user' = [user EXCEPT ![b] = NoUser]
    /\ readyState' = [readyState EXCEPT ![b] = IF @ = "OPEN" THEN "CLOSING" ELSE @]
    /\ broken' = broken \ {b}
    /\ inbox' = [inbox EXCEPT ![b] = <<>>]
    /\ resp' = [op |-> "logout", status |-> 200]
    /\ bcast' = <<>>
    /\ UNCHANGED <<users, hazards, now, tokens, clients, view, mounted, fetching>>

\* POST /api/hazards
CreateReport(reqUser, in) ==
    /\ IF ~Authenticated(reqUser)
       THEN /\ resp' = [op |-> "post", status |-> 401, by |-> reqUser]
            /\ bcast' = <<>>
            /\ UNCHANGED <<hazards, inbox>>
       ELSE LET r == PostHazard(hazards, reqUser.id, in, now)
                data == [type |-> "NEW_HAZARD", payload |-> r.newHazard]
            IN  /\ hazards' = r.db
                /\ inbox' = Broadcast(data, clients, readyState, broken, inbox)
                /\ bcast' = BroadcastCall(data, clients, readyState, broken)
                /\ resp' = [op |-> "post",
                            status |-> StatusAfterBroadcast(clients, readyState, broken),
                            by |-> reqUser, body |-> r.newHazard]
    /\ UNCHANGED <<users, now, tokens, clients, readyState, broken, clientVars>>

\* PATCH /api/hazards/:id
UpdateStatus(reqUser, id, status, remarks) ==
    /\ IF ~Authenticated(reqUser)
       THEN /\ resp' = [op |-> "patch", status |-> 401, by |-> reqUser]
            /\ bcast' = <<>>
            /\ UNCHANGED <<hazards, inbox>>
       ELSE IF ~IsAdmin(reqUser)
       THEN /\ resp' = [op |-> "patch", status |-> 403, by |-> reqUser, id |-> id]
            /\ bcast' = <<>>
            /\ UNCHANGED <<hazards, inbox>>
       ELSE LET r == PatchHazard(hazards, id, status, remarks)
                data == [type |-> "STATUS_UPDATE", payload |-> r.updated]
                prior == SelectHazard(hazards, id)
            IN  /\ hazards' = r.db
                /\ inbox' = Broadcast(data, clients, readyState, broken,
                                      IF prior = Undefined THEN inbox
                                      ELSE Supersede(inbox, id))
                /\ bcast' = BroadcastCall(data, clients, readyState, broken)
                /\ resp' = [op |-> "patch",
                            status |-> StatusAfterBroadcast(clients, readyState, broken),
                            by |-> reqUser, id |-> id,
                            reqStatus |-> status, reqRemarks |-> remarks,
                            priorStatus |-> IF prior = Undefined THEN "none"
                                            ELSE prior.status,
                            body |-> r.updated]
    /\ UNCHANGED <<users, now, tokens, clients, readyState, broken, clientVars>>

\* GET /api/hazards: the possible response bodies for an authenticated
\* session.
GetHazards(h, u, reqUser) == OrderByCreatedAtDesc(ListRows(h, u, reqUser))

\* GET /api/hazards by a caller other than the browsers.
ListReports(reqUser) ==
    /\ IF ~Authenticated(reqUser)
       THEN resp' = [op |-> "get", status |-> 401, by |-> reqUser]
       ELSE \E list \in GetHazards(hazards, users, reqUser) :
                resp' = [op |-> "get", status |-> 200, by |-> reqUser, body |-> list]
    /\ bcast' = <<>>
    /\ UNCHANGED <<serverVars, clientVars>>

\* fetchHazards in browser b: GET /api/hazards with the browser's cookie;
\* the response travels back to the browser.
FetchHazards(b) ==
    /\ mounted[b]
    /\ Cardinality(fetching[b]) < MaxFetch
    /\ IF ~Authenticated(user[b])
       THEN /\ resp' = [op |-> "get", status |-> 401, by |-> user[b]]
            /\ fetching' = [fetching EXCEPT ![b] = @ \cup {[ok |-> FALSE]}]
       ELSE \E list \in GetHazards(hazards, users, user[b]) :
            /\ resp' = [op |-> "get", status |-> 200, by |-> user[b], body |-> list]
            /\ fetching' = [fetching EXCEPT ![b] = @ \cup {[ok |-> TRUE, data |-> list]}]
    /\ bcast' = <<>>
    /\ UNCHANGED <<serverVars, user, view, mounted>>

(***************************************************************************)
(* WebSocket connections.                                                  *)
(***************************************************************************)
\* wss.on("connection", ws => clients.add(ws)); a browser connects once it
\* has a user (setupWebSocket), any other peer at will.
WsConnect(c) ==
    /\ c \in Browsers => mounted[c] /\ user[c] # NoUser
    /\ c \notin clients
    /\ readyState[c] = "CLOSED"
    /\ clients' = clients \cup {c}
    /\ readyState' = [readyState EXCEPT ![c] = "OPEN"]
    /\ resp' = NoResp
    /\ bcast' = <<>>
    /\ UNCHANGED <<users, hazards, now, tokens, broken, inbox, clientVars>>

\* The transport of connection c fails (the peer is gone) and the server
\* has not seen it yet: readyState is still OPEN.
WsBreak(c) ==
    /\ c \in clients
    /\ readyState[c] = "OPEN"
    /\ c \notin broken
    /\ broken' = broken \cup {c}
    /\ inbox' = [b \in Browsers |-> IF b = c THEN <<>> ELSE inbox[b]]
    /\ resp' = NoResp
    /\ bcast' = <<>>
    /\ UNCHANGED <<users, hazards, now, tokens, clients, readyState, clientVars>>

\* The transport of connection c stops being open (the peer went away);
\* the server's close event has not been emitted yet.
WsDrop(c) ==
    /\ c \in clients
    /\ readyState[c] = "OPEN"
    /\ readyState' = [readyState EXCEPT ![c] = "CLOSING"]
    /\ broken' = broken \ {c}
    /\ inbox' = [b \in Browsers |-> IF b = c THEN <<>> ELSE inbox[b]]
    /\ resp' = NoResp
    /\ bcast' = <<>>
    /\ UNCHANGED <<users, hazards, now, tokens, clients, clientVars>>

\* Variant of SetDelete: removal by position in an array,
\* splice(indexOf(ws), 1); for an absent connection indexOf is -1 and the
\* last element (here the highest connection number) is removed.
SpliceDelete(cl, c) ==
    IF c \in cl THEN cl \ {c}
    ELSE {d \in cl : \E e \in cl : e > d}

\* Variant of SetDelete: the close listener removes nothing.
SetDeleteNothing(cl, c) == cl

\* clients.delete(ws): Set.prototype.delete removes the element if it is
\* there and does nothing, without throwing, if it is not.
SetDelete(cl, c) == cl \ {c}

\* ws.on("close", () => clients.delete(ws))
WsClose(c) ==
    /\ readyState[c] = "CLOSING"
    /\ clients' = SetDelete(clients, c)
    /\ readyState' = [readyState EXCEPT ![c] = "CLOSED"]
    /\ resp' = NoResp
    /\ bcast' = <<>>
    /\ UNCHANGED <<users, hazards, now, tokens, broken, inbox, clientVars>>

\* unregister called again for a connection whose close was already
\* handled: the close listener's body, clients.delete(ws), runs once more.
UnregisterAgain(c) ==
    /\ readyState[c] = "CLOSED"
    /\ c \notin clients
    /\ clients' = SetDelete(clients, c)
    /\ resp' = [op |-> "unregister", status |-> 0, conn |-> c]
    /\ bcast' = <<>>
    /\ UNCHANGED <<users, hazards, now, tokens, readyState, broken, inbox, clientVars>>

(***************************************************************************)
(* Client: the hazards state of App.                                       *)
(***************************************************************************)
\* setHazards(prev => [msg.payload, ...prev])
Prepend(payload, prev) == <<payload>> \o prev

\* setHazards(prev => prev.map(h => h.id === msg.payload.id ? msg.payload : h))
MapReplace(payload, prev) ==
    [i \in 1..Len(prev) |-> IF prev[i].id = payload.id THEN payload ELSE prev[i]]

\* onmessage's toast conditions for a viewer: NEW_HAZARD is announced to an
\* administrator; STATUS_UPDATE to the report's owner or an administrator,
\* and with msg.payload undefined the condition throws reading
\* msg.payload.userId before any toast is raised.
Notifies(viewer, msg) ==
    IF msg.type = "NEW_HAZARD" THEN viewer.role = "admin"
    ELSE IF Payload(msg) = Undefined THEN FALSE
    ELSE viewer.id = Payload(msg).userId \/ viewer.role = "admin"

\* ws.current.onmessage for the next message of browser b's connection.
\* With msg.payload undefined the STATUS_UPDATE updater reads
\* msg.payload.id for each entry of a non-empty list and throws while React
\* renders, which unmounts the tree; on an empty list it returns the list.
OnMessage(b) ==
    /\ inbox[b] # <<>>
    /\ LET msg == Head(inbox[b]).msg
           payload == Payload(msg)
       IN  /\ inbox' = [inbox EXCEPT ![b] = Tail(@)]
           /\ IF ~mounted[b]
              THEN UNCHANGED <<view, mounted>>
              ELSE IF msg.type = "NEW_HAZARD"
              THEN /\ view' = [view EXCEPT ![b] = Prepend(payload, @)]
                   /\ UNCHANGED mounted
              ELSE IF payload # Undefined
              THEN /\ view' = [view EXCEPT ![b] = MapReplace(payload, @)]
                   /\ UNCHANGED mounted
              ELSE IF view[b] = <<>>
              THEN UNCHANGED <<view, mounted>>
              ELSE /\ view' = [view EXCEPT ![b] = <<>>]
                   /\ mounted' = [mounted EXCEPT ![b] = FALSE]
           /\ resp' = IF ~mounted[b] THEN NoResp
                      ELSE [op |-> "onmessage", status |-> 0, to |-> b,
                            type |-> msg.type,
                            owner |-> IF payload = Undefined THEN 0
                                      ELSE payload.userId,
                            toast |-> Notifies(user[b], msg)]
    /\ bcast' = <<>>
    /\ UNCHANGED <<users, hazards, now, tokens, clients, readyState, broken, user,
                   fetching>>

\* fetchHazards continues with a response: if (res.ok) setHazards(data).
FetchDone(b) ==
    /\ \E r \in fetching[b] :
        /\ fetching' = [fetching EXCEPT ![b] = @ \ {r}]
        /\ IF r.ok /\ mounted[b]
           THEN view' = [view EXCEPT ![b] = r.data]
           ELSE view' = view
    /\ resp' = NoResp
    /\ bcast' = <<>>
    /\ UNCHANGED <<serverVars, user, mounted>>

(***************************************************************************)
(* Specifications.                                                         *)
(***************************************************************************)
RegisterNames == Usernames \cup {"admin"}
LoginPasswords == Passwords \cup {"admin123"}
Sessions == tokens \cup {NoUser}
Callers == Sessions \cup {InvalidToken}

\* Bounds on the runs: the number of reports, and the messages in flight to
\* a browser.
HazardRoom(max) == Len(hazards) < max
InboxRoom ==
    \A c \in Recipients(clients, readyState) \cap Browsers : Len(inbox[c]) < MaxInbox

\* The server: the HTTP surface and the connection set, driven by callers
\* and peers other than the browsers.
NextServer ==
    \/ \E n \in RegisterNames, p \in Passwords, r \in RoleInputs : Register(n, p, r)
    \/ \E n \in RegisterNames, p \in LoginPasswords : Login(n, p)
    \/ \E s \in Sessions, in \in ReportInputs :
          HazardRoom(MaxHazards) /\ CreateReport(s, in)
    \/ \E s \in Sessions, id \in 1..(MaxHazards + 1), st \in HazardStatus,
          rm \in RemarkInputs : UpdateStatus(s, id, st, rm)
    \/ \E s \in Sessions : ListReports(s)
    \/ \E c \in Peers : WsConnect(c)
    \/ \E c \in Peers : WsDrop(c)
    \/ \E c \in Peers : WsClose(c)
    \/ Restart

SpecServer == Init /\ [][NextServer]_vars

\* Request bodies and sessions of any content: a status outside
\* HazardStatus, a token that does not verify.
NextInputs ==
    \/ \E n \in Usernames, r \in RoleInputs : Register(n, "pw1", r)
    \/ \E n \in RegisterNames, p \in {"pw1", "admin123"} : Login(n, p)
    \/ \E s \in Callers, in \in ReportInputs \cup InvalidReportInputs :
          HazardRoom(MaxClientHazards) /\ CreateReport(s, in)
    \/ \E s \in Callers, id \in 1..(MaxClientHazards + 1), st \in StatusInputs,
          rm \in RemarkInputs : UpdateStatus(s, id, st, rm)
    \/ \E s \in Callers : ListReports(s)
    \/ \E c \in Peers : WsConnect(c)

SpecInputs == Init /\ [][NextInputs]_vars

\* Listing against the database clock: reports created within one second
\* and in different seconds.
NextListing ==
    \/ \E n \in Usernames : Register(n, "pw1", AbsentRole)
    \/ \E n \in RegisterNames, p \in {"pw1", "admin123"} : Login(n, p)
    \/ Tick
    \/ \E s \in Sessions, in \in ReportInputs :
          HazardRoom(MaxHazards) /\ CreateReport(s, in)
    \/ \E s \in Sessions : ListReports(s)

SpecListing == Init /\ [][NextListing]_vars

\* Publishing to connections that open, fail, close and are unregistered.
NextPublish ==
    \/ Login("admin", "admin123")
    \/ \E s \in Sessions, in \in ReportInputs :
          HazardRoom(MaxHazards) /\ CreateReport(s, in)
    \/ \E s \in Sessions, id \in 1..MaxHazards, st \in HazardStatus,
          rm \in RemarkInputs : UpdateStatus(s, id, st, rm)
    \/ \E c \in Peers : WsConnect(c)
    \/ \E c \in Peers : WsBreak(c)
    \/ \E c \in Peers : WsDrop(c)
    \/ \E c \in Peers : WsClose(c)
    \/ \E c \in Peers : UnregisterAgain(c)

SpecPublish == Init /\ [][NextPublish]_vars

\* The client: the browsers running the React application against the
\* server, while other callers write through the HTTP surface.
NextClient ==
    \/ \E n \in Usernames : Register(n, "pw1", AbsentRole)
    \/ \E n \in RegisterNames, p \in {"pw1", "admin123"} : Login(n, p)
    \/ \E b \in Browsers, n \in RegisterNames, p \in {"pw1", "admin123"} :
          BrowserLogin(b, n, p)
    \/ \E b \in Browsers : Logout(b)
    \/ \E s \in Sessions, in \in ReportInputs :
          HazardRoom(MaxClientHazards) /\ InboxRoom /\ CreateReport(s, in)
    \/ \E s \in Sessions, id \in 1..(MaxClientHazards + 1), st \in HazardStatus,
          rm \in RemarkInputs : InboxRoom /\ UpdateStatus(s, id, st, rm)
    \/ \E b \in Browsers : FetchHazards(b)
    \/ \E b \in Browsers : FetchDone(b)
    \/ \E b \in Browsers : WsConnect(b)
    \/ \E b \in Browsers : WsDrop(b)
    \/ \E b \in Browsers : WsClose(b)
    \/ \E b \in Browsers : OnMessage(b)

SpecClient == Init /\ [][NextClient]_vars

\* One browser that fetches only while its socket is registered and never
\* disconnects, while callers write through the HTTP surface: every write
\* after the browser's first fetch is pushed to it.
NextSync ==
    \/ \E n \in Usernames : Register(n, "pw1", AbsentRole)
    \/ \E n \in Usernames : Login(n, "pw1")
    \/ \E b \in Browsers : BrowserLogin(b, "admin", "admin123")
    \/ \E b \in Browsers : WsConnect(b)
    \/ \E b \in Browsers : b \in clients /\ FetchHazards(b)
    \/ \E b \in Browsers : FetchDone(b)
    \/ \E b \in Browsers : OnMessage(b)
    \/ \E s \in Sessions, in \in ReportInputs :
          HazardRoom(MaxClientHazards) /\ InboxRoom /\ CreateReport(s, in)
    \/ \E s \in Sessions, id \in 1..MaxClientHazards, st \in HazardStatus,
          rm \in RemarkInputs : InboxRoom /\ UpdateStatus(s, id, st, rm)

SpecSync == Init /\ [][NextSync]_vars

(***************************************************************************)
(* Properties.                                                             *)
(***************************************************************************)
Employee(reqUser) == Authenticated(reqUser) /\ reqUser.role # "admin"
Admin(reqUser) == Authenticated(reqUser) /\ reqUser.role = "admin"
Exists(h, id) == SelectHazard(h, id) # Undefined
\* A row of the admin listing without its reporter column.
Unannotated(row) == [f \in DOMAIN row \ {"reporter"} |-> row[f]]
OwnerName(u, userId) == SelectSeq(u, LAMBDA r : r.id = userId)[1].username

\* C1: a PATCH by an authenticated session whose role is not administrator
\* is answered 403, changes no stored record and broadcasts nothing.
C1_NonAdminUpdateForbidden ==
    [][(resp'.op = "patch" /\ Employee(resp'.by))
         => (resp'.status = 403 /\ hazards' = hazards /\ bcast' = <<>>)]_vars

\* A non-administrator's PATCH naming an existing report was answered 403.
C1_Witness ==
    /\ resp.op = "patch"
    /\ resp.status = 403
    /\ Employee(resp.by)
    /\ Exists(hazards, resp.id)

\* C2: a PATCH by an administrator naming a report id that is not in the
\* store is answered 404.
C2_MissingReportNotFound ==
    (resp.op = "patch" /\ Admin(resp.by) /\ ~Exists(hazards, resp.id))
        => resp.status = 404

\* C3: the hazard list of a browser whose user is an employee holds only
\* reports that user owns.
C3_EmployeeSeesOnlyOwn ==
    \A b \in Browsers :
        Employee(user[b]) => \A k \in 1..Len(view[b]) : view[b][k].userId = user[b].id

\* C4: the list GET /api/hazards returns to an employee holds no report of
\* another account and holds every report the employee owns.
C4_EmployeeListIsOwnReports ==
    (resp.op = "get" /\ resp.status = 200 /\ Employee(resp.by)) =>
        /\ \A k \in 1..Len(resp.body) : resp.body[k].userId = resp.by.id
        /\ \A i \in 1..Len(hazards) :
              hazards[i].userId = resp.by.id
                  => \E k \in 1..Len(resp.body) : resp.body[k] = hazards[i]

\* An employee listed while the store held a report of theirs and a report
\* of another account.
C4_Witness ==
    /\ resp.op = "get"
    /\ resp.status = 200
    /\ Employee(resp.by)
    /\ \E i \in 1..Len(hazards) : hazards[i].userId = resp.by.id
    /\ \E i \in 1..Len(hazards) : hazards[i].userId # resp.by.id

\* C5: the list GET /api/hazards returns to an administrator holds every
\* stored report, each with the username of its owner as reporter.
C5_AdminListIsAllAnnotated ==
    (resp.op = "get" /\ resp.status = 200 /\ Admin(resp.by)) =>
        /\ Len(resp.body) = Len(hazards)
        /\ \A i \in 1..Len(hazards) :
              \E k \in 1..Len(resp.body) :
                  /\ Unannotated(resp.body[k]) = hazards[i]
                  /\ resp.body[k].reporter = OwnerName(users, hazards[i].userId)

\* An administrator listed two reports owned by different accounts.
C5_Witness ==
    /\ resp.op = "get"
    /\ resp.status = 200
    /\ Admin(resp.by)
    /\ Len(hazards) = 2
    /\ hazards[1].userId # hazards[2].userId

\* C6: a PATCH by an administrator naming an existing report is answered
\* 200, and the returned record, which is the stored record, has the
\* requested status and remarks, whatever the status was before.
C6_AdminUpdateApplies ==
    (resp.op = "patch" /\ Admin(resp.by) /\ Exists(hazards, resp.id)) =>
        /\ resp.status = 200
        /\ resp.body = SelectHazard(hazards, resp.id)
        /\ resp.body.status = resp.reqStatus
        /\ resp.body.remarks = resp.reqRemarks

\* An administrator reopened a closed report.
C6_Witness ==
    /\ resp.op = "patch"
    /\ resp.status = 200
    /\ Admin(resp.by)
    /\ resp.priorStatus = "closed"
    /\ resp.reqStatus = "open"

\* C7: the record a successful POST /api/hazards returns is the stored
\* record; its status is open, its remarks are empty (NULL) and its owner
\* is the submitting account.
C7_NewReportOpenAndOwned ==
    (resp.op = "post" /\ resp.status = 200) =>
        /\ resp.body = SelectHazard(hazards, resp.body.id)
        /\ resp.body.status = "open"
        /\ resp.body.remarks = NULL
        /\ resp.body.userId = resp.by.id

\* An employee submitted a report while an earlier report was closed.
C7_Witness ==
    /\ resp.op = "post"
    /\ resp.status = 200
    /\ Employee(resp.by)
    /\ Len(hazards) = 2
    /\ hazards[1].status = "closed"

\* C8 as stated: a successful POST makes exactly one NEW_HAZARD broadcast,
\* carrying the stored record, sent to every registered connection.
C8_CreatedSentToAllRegistered ==
    (resp.op = "post" /\ resp.status = 200) =>
        /\ Len(bcast) = 1
        /\ bcast[1].type = "NEW_HAZARD"
        /\ bcast[1].payload = SelectHazard(hazards, resp.body.id)
        /\ bcast[1].to = clients

\* C8, amended: a successful POST makes exactly one NEW_HAZARD broadcast,
\* carrying the stored record, sent to every registered connection whose
\* readyState is OPEN and to no other.
C8_CreatedSentToAllOpen ==
    (resp.op = "post" /\ resp.status = 200) =>
        /\ Len(bcast) = 1
        /\ bcast[1].type = "NEW_HAZARD"
        /\ bcast[1].payload = SelectHazard(hazards, resp.body.id)
        /\ bcast[1].to = {c \in clients : readyState[c] = "OPEN"}

\* A report was created while one registered connection was open and
\* another registered connection was no longer open.
C8_Witness ==
    /\ resp.op = "post"
    /\ resp.status = 200
    /\ \E c \in clients : readyState[c] = "OPEN"
    /\ \E c \in clients : readyState[c] # "OPEN"

\* C9: a PATCH answered 200 makes exactly one STATUS_UPDATE broadcast, and
\* its payload is the record as stored after the update.
C9_UpdateBroadcastOnce ==
    (resp.op = "patch" /\ resp.status = 200) =>
        /\ Len(bcast) = 1
        /\ bcast[1].type = "STATUS_UPDATE"
        /\ bcast[1].payload = SelectHazard(hazards, resp.id)

\* An update changed the status of an existing report and was sent to an
\* open connection.
C9_Witness ==
    /\ resp.op = "patch"
    /\ resp.status = 200
    /\ Exists(hazards, resp.id)
    /\ resp.priorStatus # resp.reqStatus
    /\ bcast[1].to # {}

\* C10: a write is in the store before its event is sent.  The payload of
\* every broadcast call is the stored record at the end of the step that
\* sends it, and every event still in flight to a browser either equals
\* the stored record or a later write to that record was committed; the
\* store a GET reads after the event is observed is that store or a later
\* one.
C10_PersistBeforeBroadcast ==
    /\ \A k \in 1..Len(bcast) :
          bcast[k].payload # Undefined
              => SelectHazard(hazards, bcast[k].payload.id) = bcast[k].payload
    /\ \A b \in Browsers : \A k \in 1..Len(inbox[b]) :
          (inbox[b][k].current /\ Payload(inbox[b][k].msg) # Undefined)
              => SelectHazard(hazards, Payload(inbox[b][k].msg).id)
                     = Payload(inbox[b][k].msg)

\* A status event about a record is in flight to a browser behind an
\* earlier event about the same record that a later write has overtaken.
C10_Witness ==
    \E b \in Browsers :
        /\ Len(inbox[b]) = 2
        /\ ~inbox[b][1].current
        /\ inbox[b][2].current
        /\ inbox[b][2].msg.type = "STATUS_UPDATE"
        /\ Payload(inbox[b][2].msg) # Undefined
        /\ Payload(inbox[b][2].msg).status = "closed"


\* C11: when the delivery of an event to a connection fails, the request
\* that published it is still answered 200 and its write is in the store:
\* the created record is stored as returned, the updated record carries
\* the requested status and remarks.
C11_DeliveryFailureSwallowed ==
    (Len(bcast) = 1 /\ bcast[1].failed # {}) =>
        /\ resp.status = 200
        /\ resp.op = "post" => SelectHazard(hazards, resp.body.id) = resp.body
        /\ (resp.op = "patch" /\ resp.priorStatus # "none") =>
              /\ SelectHazard(hazards, resp.id) = resp.body
              /\ SelectHazard(hazards, resp.id).status = resp.reqStatus
              /\ SelectHazard(hazards, resp.id).remarks = resp.reqRemarks

\* An update changed the status of an existing report while the delivery
\* of its event failed on every connection it was sent to.
C11_Witness ==
    /\ resp.op = "patch"
    /\ Len(bcast) = 1
    /\ bcast[1].failed # {}
    /\ bcast[1].failed = bcast[1].to
    /\ resp.priorStatus # "none"
    /\ resp.priorStatus # resp.reqStatus

\* C12: the status of every stored report is one of open, in progress and
\* closed.
C12_StatusInHazardStatus ==
    \A i \in 1..Len(hazards) : hazards[i].status \in HazardStatus

\* C13: a POST, GET or PATCH on /api/hazards without a token, or with a
\* token that does not verify, is answered 401 whatever role the token
\* claims, changes no stored record and sends nothing.
C13_UnauthenticatedRejected ==
    [][(resp'.op \in {"post", "get", "patch"} /\ resp'.by \in {NoUser, InvalidToken})
         => /\ resp'.status = 401
            /\ hazards' = hazards
            /\ users' = users
            /\ bcast' = <<>>
            /\ inbox' = inbox]_vars

\* A PATCH carrying a token that claims the admin role but does not verify
\* was answered 401 while a report was stored and a connection was open.
C13_Witness ==
    /\ resp.op = "patch"
    /\ resp.by = InvalidToken
    /\ resp.status = 401
    /\ hazards # <<>>
    /\ \E c \in clients : readyState[c] = "OPEN"

\* C14: unregistering a connection that is not in the active set leaves the
\* set as it was, and unregistering it once more changes nothing either.
C14_UnregisterAbsentIsNoOp ==
    [][resp'.op = "unregister"
         => /\ clients' = clients
            /\ SetDelete(clients', resp'.conn) = clients'
            /\ readyState' = readyState]_vars

\* A connection that had been registered and removed was unregistered
\* again while another connection was registered.
C14_Witness ==
    /\ resp.op = "unregister"
    /\ resp.conn \notin clients
    /\ clients # {}

\* C15: no two accounts share a username, and a registration under a
\* username that an account already has is answered 400 and leaves the
\* table of accounts, credentials and roles included, as it was.
C15_UsernamesUnique ==
    [][/\ \A i, j \in 1..Len(users) : i # j => users[i].username # users[j].username
       /\ \A i, j \in 1..Len(users') : i # j => users'[i].username # users'[j].username
       /\ (resp'.op = "register"
             /\ \E i \in 1..Len(users) : users[i].username = resp'.username)
            => (resp'.status = 400 /\ users' = users)]_vars

\* A second registration as alice, asking for the admin role, was answered
\* 400 and alice's account still has role user.
C15_Witness ==
    /\ resp.op = "register"
    /\ resp.status = 400
    /\ resp.username = "alice"
    /\ resp.role = "admin"
    /\ SelectUser(users, "alice") # Undefined
    /\ SelectUser(users, "alice").role = "user"

\* C16: the seeded account admin is the first row, with its seeded
\* password and role admin, and is the only account named admin and the
\* only one with role admin, also after a restart; every other account has
\* role user, and every token that claims role admin is the seeded
\* account's.
C16_OnlySeededAdmin ==
    /\ Len(users) >= 1
    /\ users[1] = [id |-> 1, username |-> "admin",
                   password |-> HashSync("admin123"), role |-> "admin"]
    /\ \A i \in 2..Len(users) : users[i].role = "user" /\ users[i].username # "admin"
    /\ \A t \in tokens : t.role = "admin" => (t.id = 1 /\ t.username = "admin")

\* The server was restarted after alice registered and logged in.
C16_Witness ==
    /\ resp.op = "restart"
    /\ Len(users) = 2
    /\ \E t \in tokens : t.username = "alice"

\* C17: in every listing answered 200, a report created later comes before
\* a report created earlier.
C17_ListNewestFirst ==
    (resp.op = "get" /\ resp.status = 200) =>
        \A i, j \in 1..Len(resp.body) :
            i < j => resp.body[i].id > resp.body[j].id

\* C18: the userId of every stored report is the id of an account.
C18_OwnerIsAccount ==
    \A i \in 1..Len(hazards) :
        \E j \in 1..Len(users) : users[j].id = hazards[i].userId

\* Two reports are stored, one owned by the administrator and one by a
\* registered account.
C18_Witness ==
    /\ Len(hazards) = 2
    /\ hazards[1].userId # hazards[2].userId

\* C19: every broadcast calls send on exactly the registered connections
\* whose readyState is OPEN, those after a connection whose delivery fails
\* included; the connections that are not OPEN are passed over, and the
\* request is answered 200.
C19_PublishReachesEveryOpen ==
    \A k \in 1..Len(bcast) :
        /\ bcast[k].to = {c \in clients : readyState[c] = "OPEN"}
        /\ bcast[k].failed = bcast[k].to \cap broken
        /\ resp.status = 200

\* An event was published while the delivery to the first of two open
\* connections failed and the second was sent the event.
C19_Witness ==
    /\ Len(bcast) = 1
    /\ \E c, d \in bcast[1].to :
          /\ c < d
          /\ c \in bcast[1].failed
          /\ d \notin bcast[1].failed

\* C20: the payload of every broadcast is a record of the store, and a
\* request answered 401 or 403 broadcasts nothing.
C20_EventsOnlyFromCommittedWrites ==
    /\ \A k \in 1..Len(bcast) :
          /\ bcast[k].payload # Undefined
          /\ SelectHazard(hazards, bcast[k].payload.id) = bcast[k].payload
    /\ resp.status \in {401, 403} => bcast = <<>>


\* C21: a PATCH answered 200 leaves every account and every other report
\* as they were, and on the report it names changes nothing but status
\* and remarks.
C21_UpdateChangesOnlyStatusAndRemarks ==
    [][(resp'.op = "patch" /\ resp'.status = 200)
         => /\ users' = users
            /\ Len(hazards') = Len(hazards)
            /\ \A i \in 1..Len(hazards) :
                  IF hazards[i].id = resp'.id
                  THEN hazards'[i] = [hazards[i] EXCEPT
                                         !.status = hazards'[i].status,
                                         !.remarks = hazards'[i].remarks]
                  ELSE hazards'[i] = hazards[i]]_vars

\* An update changed the status of one of two stored reports, and the other
\* report has a status other than the requested one.
C21_Witness ==
    /\ resp.op = "patch"
    /\ resp.status = 200
    /\ Exists(hazards, resp.id)
    /\ resp.priorStatus # resp.reqStatus
    /\ \E i \in 1..Len(hazards) :
          hazards[i].id # resp.id /\ hazards[i].status # resp.reqStatus

\* C23: no step removes or renumbers a stored report; a POST answered 200
\* adds exactly one report, the one it returns, under an id no stored
\* report had; every other step leaves the number of reports as it was.
C23_ReportsOnlyGrow ==
    [][/\ Len(hazards') >= Len(hazards)
       /\ \A i \in 1..Len(hazards) : hazards'[i].id = hazards[i].id
       /\ IF resp'.op = "post" /\ resp'.status = 200
          THEN /\ Len(hazards') = Len(hazards) + 1
               /\ hazards'[Len(hazards')] = resp'.body
               /\ \A i \in 1..Len(hazards) : hazards[i].id # resp'.body.id
          ELSE Len(hazards') = Len(hazards)]_vars

\* A second report was created after the first one had been updated, and
\* the first one is still stored.
C23_Witness ==
    /\ resp.op = "post"
    /\ resp.status = 200
    /\ Len(hazards) = 2
    /\ hazards[1].status # "open"
    /\ hazards[2] = resp.body

\* C26: an administrator's PATCH that repeats the id, status and remarks of
\* the PATCH answered 200 just before it leaves the store as it was, and an
\* administrator's PATCH whose status is the one the report has is
\* answered 200.
C26_UpdateIdempotent ==
    [][/\ (/\ resp.op = "patch" /\ resp.status = 200
           /\ resp'.op = "patch" /\ resp'.status = 200
           /\ resp'.id = resp.id
           /\ resp'.reqStatus = resp.reqStatus
           /\ resp'.reqRemarks = resp.reqRemarks)
          => hazards' = hazards
       /\ (/\ resp'.op = "patch"
           /\ resp'.by \notin {NoUser, InvalidToken}
           /\ resp'.by.role = "admin"
           /\ \E i \in 1..Len(hazards) :
                 hazards[i].id = resp'.id /\ hazards[i].status = resp'.reqStatus)
          => resp'.status = 200]_vars

\* An update asking for status closed was applied to a report that an
\* earlier update with the same status and remarks had already closed.
C26_Witness ==
    /\ resp.op = "patch"
    /\ resp.status = 200
    /\ Exists(hazards, resp.id)
    /\ resp.priorStatus = "closed"
    /\ resp.reqStatus = "closed"
    /\ SelectHazard(hazards, resp.id).remarks = resp.reqRemarks


\* C22: every stored report has a non-empty type, location and description
\* and a risk level that is low, medium or high.
C22_StoredReportsValid ==
    \A i \in 1..Len(hazards) :
        /\ hazards[i].type # ""
        /\ hazards[i].location # ""
        /\ hazards[i].description # ""
        /\ hazards[i].riskLevel \in RiskLevel


\* C27: the connections in the active set are exactly those that have
\* connected and whose close has not been handled (readyState OPEN or
\* CLOSING); a connection whose close has been handled is sent no
\* broadcast and has no message in flight.
C27_ActiveSetIsConnected ==
    /\ clients = {c \in Conns : readyState[c] # "CLOSED"}
    /\ \A c \in Conns :
          readyState[c] = "CLOSED" =>
              /\ \A k \in 1..Len(bcast) : c \notin bcast[k].to
              /\ c \in Browsers => inbox[c] = <<>>

\* An event was sent to a registered connection while the other
\* connection had been closed, was out of the active set and was sent
\* nothing.
C27_Witness ==
    /\ Len(bcast) = 1
    /\ bcast[1].to # {}
    /\ bcast[1].to = clients
    /\ \E c \in Peers : readyState[c] = "CLOSED" /\ c \notin clients
    /\ Len(hazards) = 2


\* C24: every entry of the list held by a browser whose user is an
\* administrator has a reporter, the username of the account that owns
\* the report.
C24_AdminEntriesCarryReporter ==
    \A b \in Browsers :
        (mounted[b] /\ user[b].role = "admin") =>
            \A k \in 1..Len(view[b]) :
                /\ "reporter" \in DOMAIN view[b][k]
                /\ view[b][k].reporter = OwnerName(users, view[b][k].userId)

\* C25: a NEW_HAZARD message raises a toast exactly when the viewer is an
\* administrator, and a STATUS_UPDATE message exactly when the viewer is
\* an administrator or the owner of the report.
C25_NotifiesExactlyRelevant ==
    resp.op = "onmessage" =>
        IF resp.type = "NEW_HAZARD"
        THEN resp.toast <=> user[resp.to].role = "admin"
        ELSE resp.toast <=> (\/ user[resp.to].role = "admin"
                             \/ user[resp.to].id = resp.owner)

\* C28: on every connection the STATUS_UPDATE messages about a report are
\* in flight in the order of their writes: a message that has a later one
\* about the same report behind it belongs to an overtaken write, and the
\* last one about a report carries the stored status and remarks.
C28_StatusEventsInCommitOrder ==
    \A b \in Browsers : \A k \in 1..Len(inbox[b]) :
        LET m == inbox[b][k].msg
            later == {j \in (k + 1)..Len(inbox[b]) :
                        /\ inbox[b][j].msg.type = "STATUS_UPDATE"
                        /\ Payload(inbox[b][j].msg) # Undefined
                        /\ Payload(inbox[b][j].msg).id = Payload(m).id}
        IN  (m.type = "STATUS_UPDATE" /\ Payload(m) # Undefined) =>
                IF later = {}
                THEN /\ SelectHazard(hazards, Payload(m).id).status = Payload(m).status
                     /\ SelectHazard(hazards, Payload(m).id).remarks = Payload(m).remarks
                ELSE ~inbox[b][k].current

\* Two updates of one report by different sessions are in flight to a
\* browser: first the one that closed it, behind it the one that reopened
\* it, and the report is stored as open.
C28_Witness ==
    \E b \in Browsers :
        /\ Len(inbox[b]) = 2
        /\ inbox[b][1].msg.type = "STATUS_UPDATE"
        /\ inbox[b][2].msg.type = "STATUS_UPDATE"
        /\ Payload(inbox[b][1].msg) # Undefined
        /\ Payload(inbox[b][2].msg) # Undefined
        /\ Payload(inbox[b][1].msg).id = Payload(inbox[b][2].msg).id
        /\ Payload(inbox[b][1].msg).status = "closed"
        /\ Payload(inbox[b][2].msg).status = "open"
        /\ SelectHazard(hazards, Payload(inbox[b][2].msg).id).status = "open"

\* C29: the list held by a browser has no two entries with the same id.
C29_NoDuplicateEntries ==
    \A b \in Browsers : \A i, j \in 1..Len(view[b]) :
        i # j => view[b][i].id # view[b][j].id

\* C30: when a browser whose socket is open has no fetch response and no
\* message in flight, every entry of its list has the status and remarks
\* of the stored report.
C30_QuiescentClientAgrees ==
    \A b \in Browsers :
        (/\ mounted[b]
         /\ b \in clients
         /\ readyState[b] = "OPEN"
         /\ inbox[b] = <<>>
         /\ fetching[b] = {})
        => \A k \in 1..Len(view[b]) :
              /\ Exists(hazards, view[b][k].id)
              /\ SelectHazard(hazards, view[b][k].id).status = view[b][k].status
              /\ SelectHazard(hazards, view[b][k].id).remarks = view[b][k].remarks

====
